---- MODULE Spec2Model ----
(***************************************************************************)
(* State-machine model of app.py: a Flask facade over the GitHub REST and  *)
(* GraphQL APIs with one process-global listing cache (repo_cache).       *)
(*                                                                         *)
(* Python's None is modelled as the empty sequence and a present value v   *)
(* as the one-element sequence <<v>>; time is counted in minutes.          *)
(***************************************************************************)
EXTENDS Integers, Sequences, FiniteSets, TLC

\* ------------------------------------------------------------------ bounds
\* Longest listing handed to /api/featured when it is studied on its own.
MaxFeatured == 3
\* The clock stops advancing at MaxTime minutes.
MaxTime == 30
\* Longest listing the upstream returns in the model.
MaxListing == 2
\* Number of server threads in the threaded specification.
MaxThreads == 2
\* Number of requests the threaded specification numbers.
MaxRequests == 3

\* ------------------------------------------------------- Python-isms
None == <<>>
Some(v) == <<v>>
IsNone(o) == o = <<>>
Val(o) == o[1]

Min(a, b) == IF a < b THEN a ELSE b
Max(a, b) == IF a > b THEN a ELSE b

\* str.lower() on the language and flag spellings the model uses.
Lower(s) ==
  CASE s = "Python" -> "python"
    [] s = "PYTHON" -> "python"
    [] s = "Go"     -> "go"
    [] s = "True"   -> "true"
    [] s = "TRUE"   -> "true"
    [] s = "False"  -> "false"
    [] OTHER        -> s

\* seq[:k] of Python, negative k included (k counted from the end).
SliceTo(seq, k) ==
  IF k >= 0 THEN SubSeq(seq, 1, Min(k, Len(seq)))
            ELSE SubSeq(seq, 1, Max(Len(seq) + k, 0))

\* ------------------------------------------------------- the upstream
\* The account's repositories as the REST API lists them (the fields the
\* code reads): repository 2 has a null language, repository 3 is a fork.
\* Repository 4 is listed only where /api/featured is studied on its own.
RepoIds == 1..3
RawRepo(i) ==
  CASE i = 1 -> [id |-> 1, fork |-> FALSE, language |-> Some("Python"),
                 description |-> Some("api"),
                 stargazers_count |-> 5, updated_at |-> 1]
    [] i = 2 -> [id |-> 2, fork |-> FALSE, language |-> None,
                 description |-> None,
                 stargazers_count |-> 5, updated_at |-> 2]
    [] i = 3 -> [id |-> 3, fork |-> TRUE, language |-> Some("Go"),
                 description |-> Some(""),
                 stargazers_count |-> 9, updated_at |-> 3]
    [] OTHER -> [id |-> 4, fork |-> FALSE, language |-> Some("Go"),
                 description |-> Some("cli"),
                 stargazers_count |-> 1, updated_at |-> 4]

IsFork(id) == RawRepo(id).fork

\* One page of the listing endpoint: distinct repositories in any order
\* (the order is the provider's, whatever sort key it was asked for).
Listings ==
  { s \in UNION { [1..n -> RepoIds] : n \in 0..MaxListing } :
      \A i, j \in DOMAIN s : i # j => s[i] # s[j] }
RawListing(s) == [i \in DOMAIN s |-> RawRepo(s[i])]

\* Listings of the account with repository 4 added, for /api/featured.
FeaturedListings ==
  { s \in UNION { [1..n -> 1..4] : n \in 0..MaxFeatured } :
      \A i, j \in DOMAIN s : i # j => s[i] # s[j] }
FeaturedOutcomes ==
  { [ok |-> TRUE, repos |-> RawListing(s)] : s \in FeaturedListings }
    \cup { [ok |-> FALSE, repos |-> <<>>] }

\* Outcome of requests.get + raise_for_status on the listing endpoint.
ListingOutcomes ==
  { [ok |-> TRUE, repos |-> RawListing(s)] : s \in Listings }
    \cup { [ok |-> FALSE, repos |-> <<>>] }

\* ------------------------------------------------- GitHubService
\* The record fetch_repositories builds per repository; 'fork' is not kept.
repo_data(repo) ==
  [id |-> repo.id, description |-> repo.description,
   language |-> repo.language, stars |-> repo.stargazers_count,
   updated_at |-> repo.updated_at]

\* [lang.lower() for lang in filter_languages]
LowerAll(langs) == { Lower(langs[i]) : i \in DOMAIN langs }

\* repo_language in [lang.lower() for lang in filter_languages], where
\* repo_language is the repository's language lowered.
LanguageCaseSensitive(language, filter_languages) ==
  language \in { filter_languages[i] : i \in DOMAIN filter_languages }
LanguageMatches(language, filter_languages) ==
  Lower(language) \in LowerAll(filter_languages)

\* The filter loop of fetch_repositories from entry i on, acc being
\* filtered_repos so far.  repo.get('language', '') is None for a null
\* language, and None.lower() raises AttributeError out of the loop.
RECURSIVE FilterLoop(_, _, _, _, _)
FilterLoop(repos, i, acc, filter_forks, filter_languages) ==
  IF i > Len(repos) THEN [exc |-> "none", value |-> acc]
  ELSE LET repo == repos[i] IN
    IF filter_forks /\ repo.fork
      THEN FilterLoop(repos, i + 1, acc, filter_forks, filter_languages)
    ELSE IF ~IsNone(filter_languages) /\ Val(filter_languages) # <<>>
      THEN IF IsNone(repo.language)
             THEN [exc |-> "AttributeError", value |-> <<>>]
           ELSE IF ~LanguageMatches(Val(repo.language), Val(filter_languages))
             THEN FilterLoop(repos, i + 1, acc, filter_forks, filter_languages)
           ELSE FilterLoop(repos, i + 1, Append(acc, repo_data(repo)),
                           filter_forks, filter_languages)
    ELSE FilterLoop(repos, i + 1, Append(acc, repo_data(repo)),
                    filter_forks, filter_languages)

\* (Variant: the failure is swallowed and an empty list returned, as the
\* other service methods do.)
fetch_repositories_swallowing(up, filter_forks, filter_languages) ==
  IF ~up.ok THEN [exc |-> "none", value |-> <<>>]
  ELSE FilterLoop(up.repos, 1, <<>>, filter_forks, filter_languages)

\* fetch_repositories given the outcome `up` of its one upstream call: a
\* RequestException is re-raised as Exception, anything else propagates.
fetch_repositories(up, filter_forks, filter_languages) ==
  IF ~up.ok THEN [exc |-> "Exception", value |-> <<>>]
  ELSE FilterLoop(up.repos, 1, <<>>, filter_forks, filter_languages)

\* Outcome of the call of get_repository_languages: a mapping of language
\* names to byte counts (a set of pairs), or a failure.
LanguagesOutcomes ==
  { [ok |-> TRUE, json |-> {}], [ok |-> TRUE, json |-> {<<"Python", 100>>}],
    [ok |-> FALSE, json |-> {}] }

\* (Variant: the failure is re-raised, as fetch_repositories does.)
service_get_repository_languages_raising(up) ==
  IF up.ok THEN [exc |-> "none", value |-> up.json]
           ELSE [exc |-> "Exception", value |-> {}]

\* GitHubService.get_repository_languages: {} on a RequestException.
service_get_repository_languages(up) ==
  IF up.ok THEN [exc |-> "none", value |-> up.json]
           ELSE [exc |-> "none", value |-> {}]

\* Outcome of the call of get_repository_readme: a failure, or a document
\* with or without a 'content' key.
ReadmeOutcomes ==
  { [ok |-> FALSE, content |-> None], [ok |-> TRUE, content |-> None],
    [ok |-> TRUE, content |-> Some("aGk=")], [ok |-> TRUE, content |-> Some("")],
    [ok |-> TRUE, content |-> Some("/w==")] }

\* base64.b64decode(content).decode('utf-8'): "/w==" is the byte 0xFF,
\* which is no UTF-8 text.
B64DecodeUtf8(content) ==
  CASE content = "aGk=" -> [exc |-> "none", text |-> "hi"]
    [] content = ""     -> [exc |-> "none", text |-> ""]
    [] OTHER            -> [exc |-> "UnicodeDecodeError", text |-> ""]

\* GitHubService.get_repository_readme: the README record, None when there
\* is no content or the call failed; a decoding error propagates.
service_get_repository_readme(up) ==
  IF ~up.ok THEN [exc |-> "none", value |-> None]
  ELSE IF IsNone(up.content) THEN [exc |-> "none", value |-> None]
  ELSE LET d == B64DecodeUtf8(Val(up.content)) IN
       IF d.exc # "none" THEN [exc |-> d.exc, value |-> None]
       ELSE [exc |-> "none", value |-> Some([content |-> d.text])]

\* Outcome of the GraphQL call of get_pinned_repositories: a transport or
\* status failure, a document with an errors list, a document whose user
\* is null, or a document with pinned nodes.
PinnedNode(i) ==
  [id |-> i, description |-> RawRepo(i).description,
   primaryLanguage |-> RawRepo(i).language, isFork |-> RawRepo(i).fork]
PinnedOutcomes ==
  { [kind |-> "fail", nodes |-> <<>>], [kind |-> "errors", nodes |-> <<>>],
    [kind |-> "errors", nodes |-> <<PinnedNode(1)>>],
    [kind |-> "null_user", nodes |-> <<>>], [kind |-> "ok", nodes |-> <<>>],
    [kind |-> "ok", nodes |-> <<PinnedNode(2), PinnedNode(3)>>] }

\* The records get_pinned_repositories builds from the nodes (lines 248-284).
PinnedRecords(nodes) ==
  [i \in DOMAIN nodes |->
     [id |-> nodes[i].id, description |-> nodes[i].description,
      language |-> nodes[i].primaryLanguage,
      is_fork |-> nodes[i].isFork, is_pinned |-> TRUE]]

\* (Variant: a transport or status failure is re-raised, and the errors
\* list is not looked at.)
service_get_pinned_repositories_raising(up) ==
  IF up.kind = "fail" THEN [exc |-> "Exception", value |-> <<>>]
  ELSE IF up.kind = "null_user" THEN [exc |-> "none", value |-> <<>>]
  ELSE [exc |-> "none", value |-> PinnedRecords(up.nodes)]

\* GitHubService.get_pinned_repositories: a failure of the call, an errors
\* list in the document and any other exception (a null user) end in [].
service_get_pinned_repositories(up) ==
  IF up.kind # "ok" THEN [exc |-> "none", value |-> <<>>]
  ELSE [exc |-> "none", value |-> PinnedRecords(up.nodes)]

\* ------------------------------------------------- the listing cache
cache_duration == 30

\* (Variants: the comparison made inclusive; the comparison reversed.)
is_cache_valid_inclusive(c, t) ==
  IF (IsNone(c.data) \/ Val(c.data) = <<>>) \/ IsNone(c.last_updated)
    THEN FALSE
    ELSE t - Val(c.last_updated) <= cache_duration
is_cache_valid_reversed(c, t) ==
  IF (IsNone(c.data) \/ Val(c.data) = <<>>) \/ IsNone(c.last_updated)
    THEN FALSE
    ELSE t - Val(c.last_updated) > cache_duration

\* is_cache_valid() at clock reading t on cache c.
is_cache_valid(c, t) ==
  IF (IsNone(c.data) \/ Val(c.data) = <<>>) \/ IsNone(c.last_updated)
    THEN FALSE
    ELSE t - Val(c.last_updated) < cache_duration

\* ------------------------------------------------------------ requests
\* request.args of /api/repositories.  A flag is absent or a spelling; the
\* languages value is absent or its comma-separated names; limit is absent
\* (also when it is no integer, type=int) or an integer.
NoArgs ==
  [include_forks |-> None, languages |-> None, sort |-> None,
   limit |-> None, force_refresh |-> None]
FlagArgs == { None, Some("True") }
LanguageArgs == { None, Some(<<"python">>), Some(<<"Python">>) }
SortArgs == { None, Some("stars") }
LimitArgs == { None } \cup { Some(k) : k \in -1..1 }
ForceArgs == { None, Some("true") }

\* The requests of the model: every combination of the two filters, and
\* each other parameter varied alone.
RepositoriesArgs ==
  { [NoArgs EXCEPT !.include_forks = f, !.languages = l] :
      f \in FlagArgs, l \in LanguageArgs }
  \cup { [NoArgs EXCEPT !.include_forks = Some("false")] }
  \cup { [NoArgs EXCEPT !.force_refresh = r, !.include_forks = f] :
          r \in ForceArgs, f \in FlagArgs }
  \cup { [NoArgs EXCEPT !.limit = k] : k \in LimitArgs }
  \cup { [NoArgs EXCEPT !.sort = o] : o \in SortArgs }
FeaturedArgs == { [NoArgs EXCEPT !.limit = l] : l \in LimitArgs }
FeaturedWideArgs ==
  { [NoArgs EXCEPT !.limit = l] : l \in LimitArgs \cup {Some(2)} }

\* request.args.get(name, 'false').lower() == 'true'
ParseFlag(o) == Lower(IF IsNone(o) THEN "false" ELSE Val(o)) = "true"
\* request.args.get('languages', '').split(',') if request.args.get('languages') else None
ParseLanguages(o) == IF ~IsNone(o) /\ Val(o) # <<>> THEN o ELSE None
\* request.args.get('sort', 'updated')
ParseSort(o) == IF IsNone(o) THEN "updated" ELSE Val(o)

\* ----------------------------------------------------------- responses
\* What the last request was and what it was answered, with the upstream
\* traffic it caused: calls counts its upstream calls, upstream is the
\* outcome of the call and listing what it returned, full the list in hand
\* before the limit is applied; content is the 'content' the README
\* endpoint returned and graphql the kind of document the GraphQL call
\* returned.
NoResponse ==
  [route |-> "none", args |-> NoArgs, status |-> 0, error |-> "",
   repositories |-> <<>>, count |-> 0, cached |-> FALSE,
   last_updated |-> None, github_configured |-> FALSE,
   languages |-> {}, readme |-> None,
   calls |-> 0, upstream |-> "none", listing |-> <<>>, sort_sent |-> None,
   full |-> <<>>, content |-> None, graphql |-> "none"]

\* (Variant: the status code left off the return.)
NotConfiguredWithoutStatus(route, args) ==
  [NoResponse EXCEPT !.route = route, !.args = args, !.status = 200,
                     !.error = "GitHub service not configured"]
NotConfigured(route, args) ==
  [NoResponse EXCEPT !.route = route, !.args = args, !.status = 500,
                     !.error = "GitHub service not configured"]

\* (Variant: the limit > 0 test left off.)
ApplyLimitUnguarded(repos, limit) ==
  IF ~IsNone(limit) /\ Val(limit) # 0
    THEN SliceTo(repos, Val(limit))
    ELSE repos
\* The limit step of get_repositories: if limit and limit > 0.
ApplyLimit(repos, limit) ==
  IF ~IsNone(limit) /\ Val(limit) # 0 /\ Val(limit) > 0
    THEN SliceTo(repos, Val(limit))
    ELSE repos

\* (Variant: force_refresh not consulted.)
UseCacheIgnoringForce(c, t, args) == is_cache_valid(c, t)
\* The branch of get_repositories that answers from the cache.
UseCache(c, t, args) == ~ParseFlag(args.force_refresh) /\ is_cache_valid(c, t)

\* (Variant: what was stored stays in front of the fetched list.)
UpdateCacheMerging(c, repos, t) ==
  [data |-> Some((IF IsNone(c.data) THEN <<>> ELSE Val(c.data)) \o repos),
   last_updated |-> Some(t)]

\* The cache after get_repositories stored a fetched list at time t.
UpdateCache(c, repos, t) == [data |-> Some(repos), last_updated |-> Some(t)]

\* get_repositories of a configured service, run at time t on cache c with
\* upstream outcome up (read only when a call is made): the cache it leaves
\* and the response it sends.
get_repositories(c, t, args, up) ==
  LET include_forks == ParseFlag(args.include_forks)
      languages     == ParseLanguages(args.languages)
      sort          == ParseSort(args.sort)
      force_refresh == ParseFlag(args.force_refresh)
      hit           == UseCache(c, t, args)
      f             == fetch_repositories(up, ~include_forks, languages)
      base          == [NoResponse EXCEPT !.route = "/api/repositories",
                                          !.args = args]
  IN  IF hit THEN
        LET repos == ApplyLimit(Val(c.data), args.limit) IN
        [cache |-> c,
         resp  |-> [base EXCEPT !.status = 200, !.repositories = repos,
                      !.count = Len(repos),
                      !.cached = ~force_refresh /\ is_cache_valid(c, t),
                      !.last_updated = c.last_updated,
                      !.full = Val(c.data)]]
      ELSE IF f.exc # "none" THEN
        [cache |-> c,
         resp  |-> [base EXCEPT !.status = 500, !.error = f.exc,
                      !.calls = 1, !.sort_sent = Some(sort),
                      !.upstream = IF up.ok THEN "ok" ELSE "fail",
                      !.listing = up.repos]]
      ELSE
        LET c1    == UpdateCache(c, f.value, t)
            repos == ApplyLimit(f.value, args.limit) IN
        [cache |-> c1,
         resp  |-> [base EXCEPT !.status = 200, !.repositories = repos,
                      !.count = Len(repos),
                      !.cached = ~force_refresh /\ is_cache_valid(c1, t),
                      !.last_updated = c1.last_updated,
                      !.calls = 1, !.sort_sent = Some(sort),
                      !.upstream = IF up.ok THEN "ok" ELSE "fail",
                      !.listing = up.repos, !.full = f.value]]

\* health_check
health_check(conf) ==
  [NoResponse EXCEPT !.route = "/", !.status = 200, !.github_configured = conf]

\* get_repository_languages (the route) of a configured service.
get_repository_languages(up) ==
  LET languages == service_get_repository_languages(up)
      base == [NoResponse EXCEPT !.route = "/api/repositories/{name}/languages",
                 !.calls = 1, !.upstream = IF up.ok THEN "ok" ELSE "fail"]
  IN  IF languages.exc # "none"
        THEN [base EXCEPT !.status = 500, !.error = languages.exc]
        ELSE [base EXCEPT !.status = 200, !.languages = languages.value]

\* get_repository_readme (the route) of a configured service.
get_repository_readme(up) ==
  LET readme_data == service_get_repository_readme(up)
      base == [NoResponse EXCEPT !.route = "/api/repositories/{name}/readme",
                 !.calls = 1, !.upstream = IF up.ok THEN "ok" ELSE "fail",
                 !.content = up.content]
  IN  IF readme_data.exc # "none"
        THEN [base EXCEPT !.status = 500, !.error = readme_data.exc]
      ELSE IF ~IsNone(readme_data.value)
        THEN [base EXCEPT !.status = 200, !.readme = readme_data.value]
      ELSE [base EXCEPT !.status = 404]

\* repo['description'] or 'No description available'
DescriptionOr(d) ==
  IF IsNone(d) \/ Val(d) = "" THEN "No description available" ELSE Val(d)

\* get_pinned_repositories (the route) of a configured service.
get_pinned_repositories(up) ==
  LET r == service_get_pinned_repositories(up)
      pinned_repos == r.value
      formatted_repos ==
        [i \in DOMAIN pinned_repos |->
           [id |-> pinned_repos[i].id,
            description |-> DescriptionOr(pinned_repos[i].description),
            language |-> pinned_repos[i].language, is_pinned |-> TRUE]]
      base == [NoResponse EXCEPT !.route = "/api/pinned", !.calls = 1,
                 !.upstream = IF up.kind = "fail" THEN "fail" ELSE "ok",
                 !.graphql = up.kind]
  IN  IF r.exc # "none"
        THEN [base EXCEPT !.status = 500, !.error = r.exc]
        ELSE [base EXCEPT !.status = 200, !.repositories = formatted_repos,
                !.count = Len(formatted_repos)]

\* (Variant: the key is the star count alone.)
KeyLessStarsOnly(a, b) == a.stars < b.stars

\* key=lambda r: (r['stars'], r['updated_at']): a is ordered before b.
KeyLess(a, b) ==
  \/ a.stars < b.stars
  \/ a.stars = b.stars /\ a.updated_at < b.updated_at

\* sorted(repos, key=..., reverse=True): a stable descending sort, built by
\* inserting each entry behind the entries that are not smaller.
RECURSIVE InsertDesc(_, _)
InsertDesc(sorted, r) ==
  IF sorted = <<>> THEN <<r>>
  ELSE IF KeyLess(Head(sorted), r) THEN <<r>> \o sorted
  ELSE <<Head(sorted)>> \o InsertDesc(Tail(sorted), r)
RECURSIVE SortedDesc(_)
SortedDesc(repos) ==
  IF repos = <<>> THEN <<>>
  ELSE InsertDesc(SortedDesc(SubSeq(repos, 1, Len(repos) - 1)), repos[Len(repos)])

\* request.args.get('limit', 6, type=int)
FeaturedDefaultLimit == 6
ParseFeaturedLimit(o) == IF IsNone(o) THEN FeaturedDefaultLimit ELSE Val(o)

\* get_featured_repositories of a configured service.
get_featured_repositories(args, up) ==
  LET limit == ParseFeaturedLimit(args.limit)
      f == fetch_repositories(up, TRUE, None)
      base == [NoResponse EXCEPT !.route = "/api/featured", !.args = args,
                 !.calls = 1, !.sort_sent = Some("updated"),
                 !.upstream = IF up.ok THEN "ok" ELSE "fail",
                 !.listing = up.repos]
  IN  IF f.exc # "none"
        THEN [base EXCEPT !.status = 500, !.error = f.exc]
      ELSE
        LET featured_repos == SliceTo(SortedDesc(f.value), limit)
            formatted_repos ==
              [i \in DOMAIN featured_repos |->
                 [id |-> featured_repos[i].id,
                  description |-> DescriptionOr(featured_repos[i].description),
                  language |-> featured_repos[i].language,
                  stars |-> featured_repos[i].stars,
                  last_updated |-> featured_repos[i].updated_at]]
        IN [base EXCEPT !.status = 200, !.repositories = formatted_repos,
              !.count = Len(formatted_repos), !.full = f.value]

\* ---------------------------------------------------------------- state
VARIABLES
  configured,   \* github_service is not None
  repo_cache,   \* [data, last_updated] of repo_cache
  now,          \* datetime.now(), in minutes
  last,         \* the last request and its response
  threads,      \* per server thread: where its get_repositories call stands,
                \* the list it holds and, when known, that list's fetch time
  written,      \* which request stored repo_cache's data, which its last_updated
  issued        \* number of requests the threaded server has taken

vars == <<configured, repo_cache, now, last, threads, written, issued>>
tvars == <<threads, written, issued>>

Threads == 1..MaxThreads
\* A thread between requests.
IdleThread ==
  [pc |-> "idle", id |-> 0, args |-> NoArgs, repos |-> <<>>, stamp |-> None]

EmptyCache == [data |-> None, last_updated |-> None]

Init ==
  /\ configured \in BOOLEAN
  /\ repo_cache = EmptyCache
  /\ now = 0
  /\ last = NoResponse
  /\ threads = [t \in Threads |-> IdleThread]
  /\ written = [data |-> 0, last_updated |-> 0]
  /\ issued = 0

\* Time passes between requests.
Tick ==
  /\ now + cache_duration \div 2 <= MaxTime
  /\ now' = now + cache_duration \div 2
  /\ UNCHANGED <<configured, repo_cache, last, tvars>>

\* GET /api/repositories
GetRepositories ==
  \E args \in RepositoriesArgs :
    IF ~configured THEN
      /\ last' = NotConfigured("/api/repositories", args)
      /\ UNCHANGED <<configured, repo_cache, now, tvars>>
    ELSE
      \E up \in IF UseCache(repo_cache, now, args)
                  THEN { [ok |-> FALSE, repos |-> <<>>] }
                  ELSE ListingOutcomes :
        LET r == get_repositories(repo_cache, now, args, up) IN
        /\ repo_cache' = r.cache
        /\ last' = r.resp
        /\ UNCHANGED <<configured, now, tvars>>

\* GET /
HealthCheck ==
  /\ last' = health_check(configured)
  /\ UNCHANGED <<configured, repo_cache, now, tvars>>

\* GET /api/repositories/{name}/languages
GetRepositoryLanguages ==
  /\ last' \in IF ~configured
                THEN { NotConfigured("/api/repositories/{name}/languages", NoArgs) }
                ELSE { get_repository_languages(up) : up \in LanguagesOutcomes }
  /\ UNCHANGED <<configured, repo_cache, now, tvars>>

\* GET /api/repositories/{name}/readme
GetRepositoryReadme ==
  /\ last' \in IF ~configured
                THEN { NotConfigured("/api/repositories/{name}/readme", NoArgs) }
                ELSE { get_repository_readme(up) : up \in ReadmeOutcomes }
  /\ UNCHANGED <<configured, repo_cache, now, tvars>>

\* GET /api/pinned
GetPinnedRepositories ==
  /\ last' \in IF ~configured
                THEN { NotConfigured("/api/pinned", NoArgs) }
                ELSE { get_pinned_repositories(up) : up \in PinnedOutcomes }
  /\ UNCHANGED <<configured, repo_cache, now, tvars>>

\* (Variant: the route stores what it fetched in the listing cache.)
GetFeaturedRepositoriesCaching ==
  /\ configured
  /\ \E args \in FeaturedArgs, up \in ListingOutcomes :
       /\ last' = get_featured_repositories(args, up)
       /\ repo_cache' = IF last'.status = 200
                          THEN UpdateCache(repo_cache, last'.full, now)
                          ELSE repo_cache
  /\ UNCHANGED <<configured, now, tvars>>

\* GET /api/featured
GetFeaturedRepositories ==
  /\ \E args \in FeaturedArgs :
       last' \in IF ~configured
                   THEN { NotConfigured("/api/featured", args) }
                   ELSE { get_featured_repositories(args, up) : up \in ListingOutcomes }
  /\ UNCHANGED <<configured, repo_cache, now, tvars>>

Next ==
  \/ Tick
  \/ HealthCheck
  \/ GetRepositories
  \/ GetRepositoryLanguages
  \/ GetRepositoryReadme
  \/ GetPinnedRepositories
  \/ GetFeaturedRepositories

Spec == Init /\ [][Next]_vars

\* /api/featured on its own, over listings of up to MaxFeatured entries.
FeaturedNext ==
  /\ \E args \in FeaturedWideArgs :
       last' \in IF ~configured
                   THEN { NotConfigured("/api/featured", args) }
                   ELSE { get_featured_repositories(args, up) : up \in FeaturedOutcomes }
  /\ UNCHANGED <<configured, repo_cache, now, tvars>>

SpecFeatured == Init /\ [][FeaturedNext]_vars


\* ------------------------------------------------- the threaded server
\* The same get_repositories run by concurrent threads (Flask serves each
\* request on its own thread and repo_cache has no lock): a thread can be
\* preempted between any two statements that touch repo_cache, so each
\* such statement is a step.
ThreadedArgs ==
  { NoArgs, [NoArgs EXCEPT !.include_forks = Some("True")],
    [NoArgs EXCEPT !.force_refresh = Some("true")] }
ThreadedOutcomes ==
  { up \in ListingOutcomes :
      ~up.ok \/ up.repos = <<>> \/ up.repos = RawListing(<<1, 3>>) }

\* Lines 331-345: the configuration check, the parameters, the cache test.
TBegin(t) ==
  /\ threads[t].pc = "idle"
  /\ issued < MaxRequests
  /\ issued' = issued + 1
  /\ \E args \in ThreadedArgs :
       IF ~configured THEN
         /\ last' = NotConfigured("/api/repositories", args)
         /\ UNCHANGED threads
       ELSE
         /\ threads' = [threads EXCEPT ![t] =
              [pc |-> IF UseCache(repo_cache, now, args) THEN "read" ELSE "fetch",
               id |-> issued + 1, args |-> args, repos |-> <<>>,
               stamp |-> None]]
         /\ UNCHANGED last
  /\ UNCHANGED <<configured, repo_cache, now, written>>

\* Line 347: repos = repo_cache['data'].  The list read was fetched at
\* repo_cache['last_updated'] when both fields were stored by one request.
TRead(t) ==
  /\ threads[t].pc = "read"
  /\ threads' = [threads EXCEPT ![t].pc = "respond",
                                ![t].repos = Val(repo_cache.data),
                                ![t].stamp =
                                   IF written.data = written.last_updated
                                     THEN repo_cache.last_updated ELSE None]
  /\ UNCHANGED <<configured, repo_cache, now, last, written, issued>>

\* (Variant: a failed upstream call is tried again.)
TFetchRetrying(t) ==
  /\ threads[t].pc = "fetch"
  /\ \E up \in ThreadedOutcomes :
       LET args == threads[t].args
           f == fetch_repositories(up, ~ParseFlag(args.include_forks),
                                   ParseLanguages(args.languages))
       IN IF f.exc # "none" THEN
            /\ threads' = [threads EXCEPT ![t].repos = <<>>]
            /\ last' = [NoResponse EXCEPT !.route = "/api/repositories",
                          !.args = args, !.calls = 1,
                          !.upstream = IF up.ok THEN "ok" ELSE "fail"]
          ELSE
            /\ threads' = [threads EXCEPT ![t].pc = "store_data",
                                          ![t].repos = f.value]
            /\ UNCHANGED last
  /\ UNCHANGED <<configured, repo_cache, now, written, issued>>

\* Lines 351-355: the upstream call; an exception ends the request (372-374).
TFetch(t) ==
  /\ threads[t].pc = "fetch"
  /\ \E up \in ThreadedOutcomes :
       LET args == threads[t].args
           f == fetch_repositories(up, ~ParseFlag(args.include_forks),
                                   ParseLanguages(args.languages))
       IN IF f.exc # "none" THEN
            /\ threads' = [threads EXCEPT ![t] = IdleThread]
            /\ last' = [NoResponse EXCEPT !.route = "/api/repositories",
                          !.args = args, !.status = 500, !.error = f.exc,
                          !.calls = 1, !.sort_sent = Some(ParseSort(args.sort)),
                          !.upstream = IF up.ok THEN "ok" ELSE "fail",
                          !.listing = up.repos]
          ELSE
            /\ threads' = [threads EXCEPT ![t].pc = "store_data",
                                          ![t].repos = f.value]
            /\ UNCHANGED last
  /\ UNCHANGED <<configured, repo_cache, now, written, issued>>

\* Line 358: repo_cache['data'] = repos
TStoreData(t) ==
  /\ threads[t].pc = "store_data"
  /\ repo_cache' = [repo_cache EXCEPT !.data = Some(threads[t].repos)]
  /\ written' = [written EXCEPT !.data = threads[t].id]
  /\ threads' = [threads EXCEPT ![t].pc = "store_time"]
  /\ UNCHANGED <<configured, now, last, issued>>

\* Line 359: repo_cache['last_updated'] = datetime.now()
TStoreTime(t) ==
  /\ threads[t].pc = "store_time"
  /\ repo_cache' = [repo_cache EXCEPT !.last_updated = Some(now)]
  /\ written' = [written EXCEPT !.last_updated = threads[t].id]
  /\ threads' = [threads EXCEPT ![t].pc = "respond", ![t].stamp = Some(now)]
  /\ UNCHANGED <<configured, now, last, issued>>

\* Lines 362-370: the limit and the response, which reads repo_cache again.
TRespond(t) ==
  /\ threads[t].pc = "respond"
  /\ LET args == threads[t].args
         repos == ApplyLimit(threads[t].repos, args.limit)
     IN last' = [NoResponse EXCEPT !.route = "/api/repositories",
                   !.args = args, !.status = 200, !.repositories = repos,
                   !.count = Len(repos),
                   !.cached = ~ParseFlag(args.force_refresh)
                                /\ is_cache_valid(repo_cache, now),
                   !.last_updated = repo_cache.last_updated,
                   !.full = threads[t].repos]
  /\ threads' = [threads EXCEPT ![t] = IdleThread]
  /\ UNCHANGED <<configured, repo_cache, now, written, issued>>

TTick ==
  /\ now + cache_duration <= MaxTime
  /\ now' = now + cache_duration
  /\ UNCHANGED <<configured, repo_cache, last, tvars>>

ThreadedNext ==
  \/ TTick
  \/ \E t \in Threads :
       TBegin(t) \/ TRead(t) \/ TFetch(t) \/ TStoreData(t) \/ TStoreTime(t)
         \/ TRespond(t)

SpecThreaded == Init /\ [][ThreadedNext]_vars

\* The next statement of the request thread t is serving.
TStep(t) ==
  TRead(t) \/ TFetch(t) \/ TStoreData(t) \/ TStoreTime(t) \/ TRespond(t)

\* The threaded server when every thread that can run does run in the end,
\* and every upstream call returns or fails (TFetch is a step of TStep).
SpecThreadedFair ==
  /\ Init /\ [][ThreadedNext]_vars
  /\ \A t \in Threads : WF_vars(TStep(t))


\* ================================================================ claims
\* The records get_repositories would store for an upstream listing that is
\* kept whole.
Unfiltered(listing) == [i \in DOMAIN listing |-> repo_data(listing[i])]

\* A response of /api/repositories.
IsListing(r) == r.route = "/api/repositories"

\* C1: the snapshot in the cache is the unfiltered provider listing of the
\* fetch that stored it, whatever include_forks and languages the request
\* carried.  (The code stores the filtered list.)
C1_CacheHoldsUnfilteredListing ==
  (IsListing(last) /\ last.calls = 1 /\ last.status = 200)
    => repo_cache.data = Some(Unfiltered(last.listing))

\* C2: a successful response to a request whose include_forks is absent or
\* false contains no repository the provider flags as a fork.  (A snapshot
\* fetched with include_forks=true is served to later requests as it is.)
C2_NoForkUnlessIncluded ==
  (IsListing(last) /\ last.status = 200 /\ ~ParseFlag(last.args.include_forks))
    => \A i \in DOMAIN last.repositories : ~IsFork(last.repositories[i].id)


\* A step that serves a /api/repositories request (the clock stands still
\* while a request is served).
ListingStep == IsListing(last') /\ now' = now
Forced(r) == ParseFlag(r.args.force_refresh)

\* C3 as claimed: two requests without force_refresh within the TTL window
\* of each other, the first of which fetched, issue one upstream call in
\* total, for every provider listing.
C3_OneCallForEveryListing ==
  [][ ( /\ IsListing(last) /\ last.status = 200 /\ last.calls = 1
        /\ ~Forced(last)
        /\ ListingStep /\ ~Forced(last')
        /\ now - Val(last.last_updated) < cache_duration )
      => last.calls + last'.calls = 1 ]_vars

\* C3 as amended: the same, when the list the first request stored is not
\* empty.
C3_OneCallWithinTTL ==
  [][ ( /\ IsListing(last) /\ last.status = 200 /\ last.calls = 1
        /\ ~Forced(last) /\ last.full # <<>>
        /\ ListingStep /\ ~Forced(last')
        /\ now - Val(last.last_updated) < cache_duration )
      => last.calls + last'.calls = 1 ]_vars

\* A request with other parameters than the defaults is served, without an
\* upstream call, from a snapshot fetched earlier within the window.
C3_Witness ==
  /\ IsListing(last) /\ last.status = 200 /\ last.calls = 0
  /\ ParseFlag(last.args.include_forks)
  /\ now - Val(repo_cache.last_updated) = cache_duration \div 2

\* C4: is_cache_valid is true iff a snapshot exists (data non-empty and
\* last_updated set) and now - last_updated < cache_duration; it is false
\* when the age equals cache_duration and whenever data is empty or None
\* or last_updated is None.
SnapshotExists ==
  /\ ~IsNone(repo_cache.data) /\ Val(repo_cache.data) # <<>>
  /\ ~IsNone(repo_cache.last_updated)
C4_IsCacheValidIffFresh ==
  \A t \in 0..(MaxTime + cache_duration) :
    /\ is_cache_valid(repo_cache, t)
         <=> (SnapshotExists /\ t - Val(repo_cache.last_updated) < cache_duration)
    /\ (SnapshotExists /\ t - Val(repo_cache.last_updated) = cache_duration)
         => ~is_cache_valid(repo_cache, t)
    /\ ~SnapshotExists => ~is_cache_valid(repo_cache, t)

\* A stored, non-empty snapshot whose age is exactly cache_duration.
C4_Witness ==
  /\ SnapshotExists
  /\ now - Val(repo_cache.last_updated) = cache_duration
  /\ ~is_cache_valid(repo_cache, now)

\* C5 as claimed: a request with force_refresh=true always issues an
\* upstream call and always overwrites data and last_updated with its
\* result.
C5_ForceRefreshAlwaysOverwrites ==
  [][ (ListingStep /\ Forced(last'))
      => /\ last'.calls = 1
         /\ repo_cache' = [data |-> Some(last'.full), last_updated |-> Some(now)] ]_vars

\* C5 as amended: with the service configured, a request with
\* force_refresh=true always issues an upstream call, fresh cache or not;
\* when it is answered 200 data and last_updated are overwritten with the
\* result and time of that call, otherwise the snapshot is left as it was.
C5_ForceRefresh ==
  [][ (ListingStep /\ Forced(last') /\ configured)
      => /\ last'.calls = 1
         /\ last'.status = 200
              => repo_cache' = [data |-> Some(last'.full), last_updated |-> Some(now)]
         /\ last'.status # 200 => repo_cache' = repo_cache ]_vars

\* A forced request, later than the start, has fetched and stored its list.
C5_Witness ==
  /\ IsListing(last) /\ Forced(last) /\ last.calls = 1 /\ last.status = 200
  /\ now > 0 /\ last.full # <<>>
  /\ repo_cache = [data |-> Some(last.full), last_updated |-> Some(now)]

\* C6: when the upstream listing call of /api/repositories fails, the
\* answer is 500 with an error body, nothing of the snapshot is returned,
\* and data and last_updated are what they were before the request.
C6_FailureLeavesCache ==
  [][ (IsListing(last') /\ last'.upstream = "fail")
      => /\ last'.status = 500 /\ last'.error # ""
         /\ last'.repositories = <<>>
         /\ repo_cache' = repo_cache ]_vars

\* A failed refresh with a snapshot in the cache, which is still there.
C6_Witness ==
  /\ IsListing(last) /\ last.upstream = "fail" /\ last.status = 500
  /\ SnapshotExists

\* C7: under any interleaving of concurrent requests, once the requests
\* have completed data and last_updated were written by one and the same
\* request.  (Lines 358 and 359 are two steps.)
C7_SnapshotWrittenByOneRequest ==
  (\A t \in Threads : threads[t].pc = "idle")
    => written.data = written.last_updated

\* Two requests that differ at most in the letter case of the names in
\* languages.
CaseTwins(a, b) ==
  /\ ~IsNone(a.languages) /\ ~IsNone(b.languages)
  /\ [a EXCEPT !.languages = None] = [b EXCEPT !.languages = None]
  /\ Len(Val(a.languages)) = Len(Val(b.languages))
  /\ \A i \in DOMAIN Val(a.languages) :
        Lower(Val(a.languages)[i]) = Lower(Val(b.languages)[i])

\* C8: for any cache state and any provider listing, two requests that
\* differ only in the letter case of the names in languages are answered
\* with the same repository list.
C8_LanguageCaseInsensitive ==
  configured =>
    \A a, b \in RepositoriesArgs : CaseTwins(a, b) =>
      \A up \in ListingOutcomes :
        LET ra == get_repositories(repo_cache, now, a, up).resp
            rb == get_repositories(repo_cache, now, b, up).resp
        IN  ra.status = rb.status /\ ra.repositories = rb.repositories

\* A request for "python" was answered, from a fetch, with a repository
\* whose language is spelled "Python".
C8_Witness ==
  /\ IsListing(last) /\ last.status = 200 /\ last.calls = 1
  /\ last.args.languages = Some(<<"python">>)
  /\ \E i \in DOMAIN last.repositories :
        last.repositories[i].language = Some("Python")

\* C9: the limit is applied only when it is > 0: with limit absent, 0 or
\* negative the response holds the full list, with limit k > 0 its first
\* min(k, n) entries in order; count is the number of entries returned.
C9_LimitOnlyWhenPositive ==
  (IsListing(last) /\ last.status = 200) =>
    LET limit == last.args.limit
        n     == Len(last.full)
    IN  /\ (IsNone(limit) \/ Val(limit) <= 0) => last.repositories = last.full
        /\ (~IsNone(limit) /\ Val(limit) > 0)
             => last.repositories = SubSeq(last.full, 1, Min(Val(limit), n))
        /\ last.count = Len(last.repositories)

\* A negative limit answered with the full list of two.
C9_Witness ==
  /\ IsListing(last) /\ last.status = 200
  /\ last.args.limit = Some(-1)
  /\ Len(last.full) = 2 /\ last.repositories = last.full

\* The routes that need the upstream.
UpstreamRoutes ==
  { "/api/repositories", "/api/repositories/{name}/languages",
    "/api/repositories/{name}/readme", "/api/pinned", "/api/featured" }

\* C10: without token or account (github_service is None) every
\* upstream-dependent route answers 500 with an error body, makes no
\* upstream call and leaves the cache untouched, while / answers 200 with
\* github_configured false.
C10_NotConfigured ==
  ~configured =>
    /\ repo_cache = EmptyCache
    /\ last.route \in UpstreamRoutes
         => last.status = 500 /\ last.error # "" /\ last.calls = 0
    /\ last.route = "/" => last.status = 200 /\ ~last.github_configured

\* An unconfigured service has answered /api/featured.
C10_Witness ==
  ~configured /\ last.route = "/api/featured" /\ last.status = 500

\* C11: a failed listing call is propagated, not answered with an empty
\* list: fetch_repositories raises, and /api/repositories and /api/featured
\* answer 500 carrying the error text.
C11_ListingFailureIs500 ==
  /\ \A ff \in BOOLEAN, fl \in LanguageArgs :
       fetch_repositories([ok |-> FALSE, repos |-> <<>>], ff,
                          ParseLanguages(fl)).exc = "Exception"
  /\ (last.route \in {"/api/repositories", "/api/featured"}
        /\ last.upstream = "fail")
       => /\ last.status = 500 /\ last.error = "Exception"
          /\ last.repositories = <<>>

\* /api/featured has answered a failed listing call.
C11_Witness ==
  /\ configured /\ last.route = "/api/featured"
  /\ last.upstream = "fail" /\ last.status = 500

\* C12: /api/pinned never fails because of the upstream: the service method
\* raises for no outcome of the GraphQL call, and after a failed call or a
\* document with an errors list the route answers 200 with an empty
\* pinned_repositories and count 0.
C12_PinnedNeverFails ==
  /\ \A up \in PinnedOutcomes : service_get_pinned_repositories(up).exc = "none"
  /\ (configured /\ last.route = "/api/pinned")
       => /\ last.status = 200 /\ last.error = ""
          /\ last.count = Len(last.repositories)
          /\ last.graphql \in {"fail", "errors"}
               => last.repositories = <<>> /\ last.count = 0

\* /api/pinned has answered a failed GraphQL call.
C12_Witness ==
  /\ configured /\ last.route = "/api/pinned"
  /\ last.graphql = "fail" /\ last.status = 200 /\ last.count = 0

\* C13: with the service configured the languages route never answers an
\* error because of the upstream: after a failed call the method returns
\* the empty mapping and the route answers 200 with languages empty.
C13_LanguagesNeverFails ==
  /\ \A up \in LanguagesOutcomes :
       service_get_repository_languages(up).exc = "none"
  /\ (configured /\ last.route = "/api/repositories/{name}/languages")
       => /\ last.status = 200 /\ last.error = ""
          /\ last.upstream = "fail" => last.languages = {}

\* The languages route has answered a failed call.
C13_Witness ==
  /\ configured /\ last.route = "/api/repositories/{name}/languages"
  /\ last.upstream = "fail" /\ last.status = 200 /\ last.languages = {}

\* C14: with the service configured the README route answers 200 with the
\* decoded README when the upstream reports content, and 404 with readme
\* null in every other case.  (Content that is not UTF-8 text is answered
\* with 500.)
C14_ReadmeFoundOrNotFound ==
  (configured /\ last.route = "/api/repositories/{name}/readme")
    => IF last.upstream = "ok" /\ ~IsNone(last.content)
         THEN last.status = 200 /\ ~IsNone(last.readme)
         ELSE last.status = 404 /\ IsNone(last.readme)

\* The ids of the repositories of a provider listing that are not forks.
NonForkIds(listing) ==
  { listing[i].id : i \in { j \in DOMAIN listing : ~listing[j].fork } }

\* Entry a of a featured response is ahead of b: more stars, or as many
\* and updated later.
Ahead(a, b) ==
  \/ a.stars > b.stars
  \/ a.stars = b.stars /\ a.last_updated > b.last_updated

\* C15: /api/featured returns the non-fork repositories ordered by stars
\* descending, ties by updated_at descending, cut to the first limit
\* entries (6 when limit is absent), and count is the number of entries
\* returned.  The number of entries is stated for a limit that is absent or
\* not negative, the rest for every limit.
C15_FeaturedOrder ==
  (last.route = "/api/featured" /\ last.status = 200)
    => LET out == last.repositories
           ids == { out[i].id : i \in DOMAIN out }
           rest == NonForkIds(last.listing) \ ids
           k   == IF IsNone(last.args.limit) THEN FeaturedDefaultLimit
                                             ELSE Val(last.args.limit)
       IN  /\ ids \subseteq NonForkIds(last.listing)
           /\ Cardinality(ids) = Len(out)
           /\ k >= 0 => Len(out) = Min(k, Cardinality(NonForkIds(last.listing)))
           /\ last.count = Len(out)
           /\ \A i \in DOMAIN out :
                /\ out[i].stars = RawRepo(out[i].id).stargazers_count
                /\ out[i].last_updated = RawRepo(out[i].id).updated_at
           /\ \A i, j \in DOMAIN out : i < j => ~Ahead(out[j], out[i])
           /\ \A x \in rest, i \in DOMAIN out :
                ~Ahead([stars |-> RawRepo(x).stargazers_count,
                        last_updated |-> RawRepo(x).updated_at], out[i])

\* Stars 5, 5 and 1 listed in the order of their update times: the later of
\* the two with 5 stars comes first, the one with 1 star last.
C15_Witness ==
  /\ last.route = "/api/featured" /\ last.status = 200
  /\ IsNone(last.args.limit)
  /\ [i \in DOMAIN last.listing |-> last.listing[i].id] = <<1, 2, 4>>
  /\ [i \in DOMAIN last.repositories |-> last.repositories[i].id] = <<2, 1, 4>>
  /\ last.count = 3

\* C16: every successful /api/repositories response to a request with a
\* languages filter holds only repositories whose language, compared
\* without regard to case, is one of those requested, whether the list was
\* fetched or read from the cache.  (The cache is served as it is.)
C16_OnlyRequestedLanguages ==
  ( /\ IsListing(last) /\ last.status = 200
    /\ ~IsNone(ParseLanguages(last.args.languages)) )
    => \A i \in DOMAIN last.repositories :
         /\ ~IsNone(last.repositories[i].language)
         /\ Lower(Val(last.repositories[i].language))
              \in LowerAll(Val(ParseLanguages(last.args.languages)))

\* The entries of a provider listing that survive the two filters, in the
\* order of the listing: forks go when filter_forks, and under a language
\* filter so does every entry whose language is null or not asked for.
Survivors(listing, filter_forks, filter_languages) ==
  LET Keep(repo) ==
        /\ ~(filter_forks /\ repo.fork)
        /\ \/ IsNone(filter_languages)
           \/ /\ ~IsNone(repo.language)
              /\ Lower(Val(repo.language)) \in LowerAll(Val(filter_languages))
  IN  Unfiltered(SelectSeq(listing, Keep))

\* C17: for every provider listing, entries with a null language included,
\* fetch_repositories returns, in provider order, exactly the entries that
\* survive the fork filter and the language filter.  (A null language
\* under a language filter raises AttributeError.)
C17_FetchReturnsSurvivors ==
  ( /\ last.route \in {"/api/repositories", "/api/featured"}
    /\ last.calls = 1 /\ last.upstream = "ok" )
    => /\ last.status = 200
       /\ last.full =
            IF IsListing(last)
              THEN Survivors(last.listing, ~ParseFlag(last.args.include_forks),
                             ParseLanguages(last.args.languages))
              ELSE Survivors(last.listing, TRUE, None)

\* C18: every 500 of any route comes from a service that is not configured
\* or from a failed upstream call; no successful upstream response leads
\* to a 500.  (A null language under a languages filter and a README that
\* is not UTF-8 text do.)
C18_Only500Causes ==
  last.status = 500 => (~configured \/ last.upstream = "fail")

\* The routes other than /api/repositories.
OtherRoutes == (UpstreamRoutes \ {"/api/repositories"}) \cup {"/"}

\* C19 as claimed: a request to /api/pinned, the languages route, the README
\* route or /api/featured makes its own upstream call every time, and
\* after any of these or / the cache is what it was.
C19_OtherRoutesAlwaysCall ==
  [][ (last'.route \in OtherRoutes /\ now' = now)
      => /\ repo_cache' = repo_cache
         /\ last'.route # "/" => last'.calls = 1 ]_vars

\* C19 as amended: the upstream call is made when the service is
\* configured (an unconfigured service makes none); the cache is left as
\* it was in either case.
C19_OtherRoutesBypassCache ==
  [][ (last'.route \in OtherRoutes /\ now' = now)
      => /\ repo_cache' = repo_cache
         /\ (configured /\ last'.route # "/") => last'.calls = 1
         /\ last'.cached = FALSE /\ IsNone(last'.last_updated) ]_vars

\* /api/featured has called the upstream although the cache was fresh, and
\* answered with a list that is not the cached one.
C19_Witness ==
  /\ last.route = "/api/featured" /\ last.status = 200 /\ last.calls = 1
  /\ is_cache_valid(repo_cache, now)
  /\ last.full # Val(repo_cache.data)

\* C20: every successful fetch of /api/repositories replaces the snapshot
\* as a whole: data is the list that fetch produced and last_updated its
\* time; a request served from the fresh cache leaves both as they were.
C20_FetchReplacesSnapshot ==
  [][ ListingStep
      => /\ (last'.calls = 1 /\ last'.status = 200)
              => repo_cache' = [data |-> Some(last'.full),
                                last_updated |-> Some(now)]
         /\ (last'.calls = 0 /\ last'.status = 200)
              => repo_cache' = repo_cache /\ last'.full = Val(repo_cache.data)
     ]_vars

\* A request without force_refresh has fetched when the first window had
\* run out, and the cache holds what it fetched.
C20_Witness ==
  /\ IsListing(last) /\ ~Forced(last) /\ last.calls = 1 /\ last.status = 200
  /\ now = cache_duration /\ last.full # <<>>
  /\ repo_cache = [data |-> Some(last.full), last_updated |-> Some(now)]

\* The sort keys the listing endpoint recognizes (docstring, line 51).
RecognizedSorts == { "updated", "created", "pushed", "full_name" }

\* C21: a /api/repositories request whose sort is none of updated, created,
\* pushed, full_name is rejected: it is answered with a client error, no
\* upstream call carries the unrecognized value and the cache is left as it
\* was.  (The value is passed on unchecked.)
C21_UnrecognizedSortRejected ==
  [][ ( /\ ListingStep /\ configured
        /\ ParseSort(last'.args.sort) \notin RecognizedSorts )
      => /\ last'.status \in 400..499
         /\ last'.calls = 0 /\ IsNone(last'.sort_sent)
         /\ repo_cache' = repo_cache ]_vars

\* C23: in every successful /api/repositories response cached is true iff
\* the list was served from the snapshot without an upstream call in that
\* request, and false iff the request fetched.  (cached is computed after
\* the cache was updated.)
C23_CachedIffNoCall ==
  (IsListing(last) /\ last.status = 200)
    => (last.cached <=> last.calls = 0)

\* C25: for every integer limit given to /api/featured, 0 and negative
\* ones included, at most max(limit, 0) entries are returned, and they are
\* a prefix of the non-fork repositories in (stars, updated_at) descending
\* order.  (A negative limit cuts entries off the end of the list.)
C25_FeaturedLimitCap ==
  ( /\ last.route = "/api/featured" /\ last.status = 200
    /\ ~IsNone(last.args.limit) )
    => LET out == last.repositories
           ids == { out[i].id : i \in DOMAIN out }
           rest == NonForkIds(last.listing) \ ids
       IN  /\ Len(out) <= Max(Val(last.args.limit), 0)
           /\ ids \subseteq NonForkIds(last.listing)
           /\ \A i, j \in DOMAIN out : i < j => ~Ahead(out[j], out[i])
           /\ \A x \in rest, i \in DOMAIN out :
                ~Ahead([stars |-> RawRepo(x).stargazers_count,
                        last_updated |-> RawRepo(x).updated_at], out[i])

\* C24: in every successful /api/repositories response last_updated is not
\* null and is the fetch time of the snapshot whose repositories the
\* response holds, also when other requests refresh the cache between this
\* request's read of the data and its read of last_updated.  (The response
\* reads repo_cache['last_updated'] anew.)
C24_LastUpdatedOfServedSnapshot ==
  [][ \A t \in Threads :
        (threads[t].pc = "respond" /\ threads'[t].pc = "idle")
          => /\ ~IsNone(last'.last_updated)
             /\ ~IsNone(threads[t].stamp)
                  => last'.last_updated = threads[t].stamp ]_vars

\* C22: every request is answered in the end, provided each upstream call
\* returns or fails: a thread serving a request always has a next step of
\* its own, whatever the other threads do (no lock, no wait, also while
\* another request is refreshing the cache), and reaches its response; and
\* the cache changes only as a step of a /api/repositories request.
C22_EveryRequestAnswered ==
  /\ \A t \in Threads : (threads[t].pc # "idle") ~> (threads[t].pc = "idle")
  /\ [](\A t \in Threads : threads[t].pc # "idle" => ENABLED TStep(t))
  /\ [][ repo_cache' # repo_cache
         => \E t \in Threads :
              /\ threads[t].pc \in {"store_data", "store_time"}
              /\ threads'[t].pc # threads[t].pc ]_vars

\* A request has read the cache and stands before its response while
\* another request is in the middle of a refresh.
C22_Witness ==
  \E t, u \in Threads :
    /\ threads[t].pc = "store_time"
    /\ threads[u].pc = "respond" /\ IsNone(threads[u].stamp)

====
